---- MODULE Spec2Model ----
(***************************************************************************)
(* PersistentOAuthStateStore (src/auth/oauth_state_store.py): a table of   *)
(* pending OAuth state tokens kept in one JSON file.  Every public         *)
(* operation takes the instance lock, loads the whole file, sweeps the     *)
(* expired records, changes the working table and rewrites the file.       *)
(*                                                                         *)
(* A thread of the host process is a small state machine (pc) over the     *)
(* statements of store_oauth_state and validate_and_consume_oauth_state    *)
(* that touch something shared: the lock, the file, the clock.             *)
(*                                                                         *)
(* Spec is one process with two threads on one instance; SpecArgs adds the *)
(* calls whose arguments are refused, SpecRestart the discarding of the    *)
(* instance between calls, SpecKill the death of the process at any step.  *)
(* In these open() and json.dump() raise no IOError and the clock never    *)
(* steps back; a write is cut short only by Kill.  SpecFault is one thread *)
(* whose loads and writes may fail and whose file may be damaged from      *)
(* outside; SpecSweep is one thread issuing three states; SpecCtor is      *)
(* __init__ in every environment.  SpecCaller lets the caller keep and     *)
(* change the record a validation returned; SpecTwo gives each thread an   *)
(* instance of its own on the one file; SpecSingleton is the two threads   *)
(* in get_persistent_oauth_state_store; SpecLive is two threads of one     *)
(* instance with the faults, under a fair scheduler.                       *)
(***************************************************************************)
EXTENDS Integers, Sequences, FiniteSets, TLC

\* ------------------------------------------------------------- bounds
\* The wall clock starts at StartTime and advances by at most MaxTime ticks.
StartTime == 9
MaxTime == 2
\* The positive time-to-live a caller asks for (600 s in the source's default).
TTL == 2

\* ------------------------------------------------------------- inputs
Threads == {"t1", "t2"}
None == "<None>"
\* state arguments: "" is the empty string
States == {"", "s1", "s2"}
SessionIds == {None, "", "A", "B"}
\* The sessions a state is issued for: "B" issuing is "A" issuing renamed.
StoreSessionIds == {None, "", "A"}
Expirations == {-1, 0, TTL}

\* The messages of the ValueErrors the two operations raise.
ErrNoState == "OAuth state must be provided"
ErrNegative == "expires_in_seconds must be non-negative"
ErrMissing == "Missing OAuth state parameter"
ErrInvalid == "Invalid or expired OAuth state parameter"
ErrMismatch == "OAuth state does not match the initiating session"
Returned == "return"

\* Python truthiness of a str-or-None value.
Truthy(x) == x # None /\ x # ""

\* ------------------------------------------------------------- the file
\* datetime.isoformat(): the text of a timestamp, here its decimal digits.
RECURSIVE digits(_)
digits(n) == IF n < 10 THEN <<n>> ELSE Append(digits(n \div 10), n % 10)

\* A timestamp written with its last digit cut off.
isoformat_truncated(t) == digits(t \div 10)

isoformat(t) == digits(t)

\* datetime.fromisoformat(): the timestamp a text denotes.
RECURSIVE fromisoformat(_)
fromisoformat(s) ==
    IF Len(s) = 0 THEN 0
    ELSE 10 * fromisoformat(SubSeq(s, 1, Len(s) - 1)) + s[Len(s)]

\* json.dump / json.load of a session_id: None is null, a str is a string.
json_dump_value(x) == IF x = None THEN <<"null">> ELSE <<"string", x>>
json_load_value(j) == IF j[1] = "null" THEN None ELSE j[2]

EmptyTable == [k \in {} |-> 0]
NoInfo == [session_id |-> None, expires_at |-> -1, created_at |-> -1]

\* The backing file: missing, holding a strict prefix of a JSON document (just
\* opened for writing, or left so by a writer that died), or holding a document.
NoFile == [kind |-> "missing", data |-> EmptyTable]
PartialJson == [kind |-> "partial", data |-> EmptyTable]
JsonFile(doc) == [kind |-> "json", data |-> doc]
\* A file of valid JSON whose top level is a list, not an object.
ArrayJson == [kind |-> "array", data |-> EmptyTable]

\* A timestamp text datetime.fromisoformat refuses: -1 is a character that is
\* no digit.
BadText == <<-1>>
iso_valid(s) == Len(s) > 0 /\ \A i \in 1..Len(s) : s[i] \in 0..9

\* _save_states, lines 83-90: the serializable copy of the table.
serializable_states(states) ==
    [k \in DOMAIN states |->
        [session_id |-> json_dump_value(states[k].session_id),
         expires_at |-> isoformat(states[k].expires_at),
         created_at |-> isoformat(states[k].created_at)]]

\* A load that finds nothing, whatever the file holds.
load_states_empty(f) == EmptyTable

\* _load_states: {} for a missing file, {} when json.load raises
\* JSONDecodeError, else the document with its timestamps parsed.
load_states(f) ==
    IF f.kind = "missing" THEN EmptyTable
    ELSE IF f.kind = "partial" THEN EmptyTable
    ELSE [k \in DOMAIN f.data |->
            [session_id |-> json_load_value(f.data[k].session_id),
             expires_at |-> fromisoformat(f.data[k].expires_at),
             created_at |-> fromisoformat(f.data[k].created_at)]]

NoError == "none"

\* _load_states, lines 59-70: the exception raised inside the try block, if
\* any.  A missing file is no failure (line 58); open() raises IOError when the
\* read fails; json.load raises JSONDecodeError on a broken document;
\* data.values() raises AttributeError on a list; fromisoformat raises
\* ValueError on a text that is no timestamp.
load_failure(f, read_fails) ==
    IF f.kind = "missing" THEN NoError
    ELSE IF read_fails THEN "IOError"
    ELSE IF f.kind = "partial" THEN "JSONDecodeError"
    ELSE IF f.kind = "array" THEN "AttributeError"
    ELSE IF \E k \in DOMAIN f.data :
               ~iso_valid(f.data[k].expires_at) \/ ~iso_valid(f.data[k].created_at)
         THEN "ValueError"
    ELSE NoError

\* An except clause that catches IOError alone.
load_caught_io_only(err) == err = "IOError"

\* _load_states, line 75: except (IOError, json.JSONDecodeError).
load_caught(err) == err \in {"IOError", "JSONDecodeError"}

\* A load that finds nothing, whether it fails or not.
load_states_io_none(f, read_fails) == EmptyTable

\* A load that hands back the file's table although reading it failed.
load_states_io_stale(f, read_fails) == load_states(f)

\* _load_states as its caller sees it when no exception escapes: {} after a
\* caught failure (line 77).
load_states_io(f, read_fails) ==
    IF load_failure(f, read_fails) = NoError THEN load_states(f) ELSE EmptyTable

\* A save whose IOError escapes.
save_caught_never(err) == FALSE

\* _save_states, line 97: except IOError.
save_caught(err) == err = "IOError"

\* The severity of the log event a call emits for its outcome: logger.error
\* for an absent state (line 195) and for a session mismatch (line 204),
\* logger.debug for a success (lines 161 and 213), nothing for a ValueError of
\* the argument checks.
log_level(outcome) ==
    IF outcome = ErrInvalid THEN "ERROR"
    ELSE IF outcome = ErrMismatch THEN "ERROR"
    ELSE IF outcome = Returned THEN "DEBUG"
    ELSE "none"

\* A sweep that keeps the record expiring at this very instant.
cleanup_strict(states, now) ==
    [k \in {x \in DOMAIN states : ~(states[x].expires_at < now)} |-> states[k]]

\* A sweep that removes nothing.
cleanup_none(states, now) == states

\* A sweep that pushes back the expiry of the records it keeps.
cleanup_renews(states, now) ==
    [k \in {x \in DOMAIN states : ~(states[x].expires_at <= now)} |->
        [states[k] EXCEPT !.expires_at = @ + 1]]

\* A sweep that also removes the record with one more instant to live.
cleanup_eager(states, now) ==
    [k \in {x \in DOMAIN states : ~(states[x].expires_at <= now + 1)} |-> states[k]]

\* _cleanup_expired_states: keeps the records with expires_at > now.
cleanup_expired_states(states, now) ==
    [k \in {x \in DOMAIN states : ~(states[x].expires_at <= now)} |-> states[k]]

\* A deletion that leaves the record in the table.
del_keeps(states, state) == states

\* A deletion that empties the table.
del_all(states, state) == EmptyTable

\* del states[state]
del(states, state) == [k \in DOMAIN states \ {state} |-> states[k]]

\* An assignment that drops every other record of the table.
put_only(states, state, info) == [k \in {state} |-> info]

\* An assignment that leaves a record already in the table as it is.
put_keeps_existing(states, state, info) ==
    [k \in DOMAIN states \cup {state} |->
        IF k \in DOMAIN states THEN states[k] ELSE info]

\* states[state] = {...}
put(states, state, info) ==
    [k \in DOMAIN states \cup {state} |-> IF k = state THEN info ELSE states[k]]

\* An argument check that forgets expires_in_seconds.
store_arg_error_state_only(state, expires_in_seconds) ==
    IF state = "" THEN ErrNoState ELSE Returned

\* store_oauth_state, lines 136-139: the argument checks.
store_arg_error(state, expires_in_seconds) ==
    IF state = "" THEN ErrNoState
    ELSE IF expires_in_seconds < 0 THEN ErrNegative
    ELSE Returned

\* validate_and_consume_oauth_state, lines 183-184.
validate_arg_error(state) == IF state = "" THEN ErrMissing ELSE Returned

\* A binding check without the two truthiness guards.
session_mismatch_strict(bound_session, session_id) == bound_session # session_id

\* validate_and_consume_oauth_state, line 200: the session binding is violated.
session_mismatch(bound_session, session_id) ==
    Truthy(bound_session) /\ Truthy(session_id) /\ bound_session # session_id


\* A lock that never makes a thread wait.
lock_free_always(owner) == TRUE

\* RLock: `with self._lock` is entered when no other thread owns the lock.
lock_free(owner) == owner = None

\* One lock for every instance of the process.
same_lock_global(i, j) == TRUE

\* __init__, line 53: self._lock = RLock().  Two writers contend for the same
\* lock only when they use the same instance.
same_lock(i, j) == i = j

\* A `with` block that keeps the lock when it is left.
release_never(owner, t) == owner

\* The end of `with self._lock` (lines 141, 186): the owner gives the lock up,
\* on return and on raise alike.
release(owner, t) == IF owner = t THEN None ELSE owner

\* store_oauth_state, lines 149-156: the new record.
new_record(session_id, expires_in_seconds, t_now) ==
    [session_id |-> session_id,
     expires_at |-> t_now + expires_in_seconds,
     created_at |-> t_now]

\* A lookup that answers an absent state with the message of the empty one.
lookup_outcome_missing(tbl, state, session_id) ==
    IF state \notin DOMAIN tbl THEN ErrMissing
    ELSE IF session_mismatch(tbl[state].session_id, session_id) THEN ErrMismatch
    ELSE Returned

\* validate_and_consume_oauth_state, lines 192-210: what the lookup and the
\* binding check decide.
lookup_outcome(tbl, state, session_id) ==
    IF state \notin DOMAIN tbl THEN ErrInvalid
    ELSE IF session_mismatch(tbl[state].session_id, session_id) THEN ErrMismatch
    ELSE Returned

\* A validation that saves on every branch.
saves_always(out) == TRUE

\* validate_and_consume_oauth_state: _save_states is called on the session
\* mismatch (line 203) and on success (line 211), not before the raise of the
\* absent state (line 196).
saves(out) == out # ErrInvalid

\* A consumption that forgets the record rejected for its session.
consume_on_success_only(tbl, state, out) ==
    IF out = Returned THEN del(tbl, state) ELSE tbl

\* validate_and_consume_oauth_state, lines 194-211: the working table after the
\* lookup: untouched when the state is absent, without the record otherwise
\* (line 202 on a session mismatch, line 210 on success).
consume(tbl, state, out) ==
    IF out = ErrInvalid THEN tbl ELSE del(tbl, state)

\* ------------------------------------------------------------- the location
\* A path is the sequence of its components; "" is the empty sequence and
\* NoPath stands for None (no argument given, variable not set).
NoPath == <<None>>
EnvDir == <<"env">>
HomeDir == <<"home", "u">>
CwdDir == <<"cwd">>
ExplicitPath == <<"x", "states.json">>

\* os.path.join
join(base, parts) == base \o parts
dirname(path) == SubSeq(path, 1, Len(path) - 1)

\* Python truthiness of a path string or None.
PathTruthy(p) == p # NoPath /\ p # <<>>

\* A resolution that takes an unresolved "~" for a home directory.
resolve_base_dir_any_home(env, home, cwd) ==
    IF PathTruthy(env) THEN env
    ELSE IF PathTruthy(home)
         THEN join(home, <<".google_workspace_mcp", "credentials">>)
    ELSE join(cwd, <<".credentials">>)

\* __init__, lines 37-43: the directory of the default location.  env is
\* os.getenv("GOOGLE_MCP_CREDENTIALS_DIR"), home is os.path.expanduser("~"),
\* which is "~" itself when the home directory does not resolve.
resolve_base_dir(env, home, cwd) ==
    IF PathTruthy(env) THEN env
    ELSE IF PathTruthy(home) /\ home # <<"~">>
         THEN join(home, <<".google_workspace_mcp", "credentials">>)
    ELSE join(cwd, <<".credentials">>)

\* What __init__ is given and finds, before it runs.
Unconstructed(arg, env, home, dirs) ==
    [arg |-> arg, env |-> env, home |-> home, dirs |-> dirs,
     state_file_path |-> NoPath, made |-> NoPath, records |-> EmptyTable,
     global_state_store |-> None, instances |-> 0]

\* An instance that keeps the table of its last call in an attribute.
instance_records_cached(tbl) == tbl

\* What of a call's working table the instance still refers to when the call
\* has ended: nothing.  `states` is a local of the call (lines 143 and 188);
\* the instance has the attributes state_file_path and _lock only.
instance_records(tbl) == EmptyTable

\* __init__, lines 35-52: with no argument the default directory is resolved,
\* created when it does not exist (lines 46-47), and the file is
\* oauth_states.json in it; with an argument the path is taken as it is.
construct(i) ==
    IF i.arg = NoPath
    THEN LET base_dir == resolve_base_dir(i.env, i.home, CwdDir) IN
         [i EXCEPT !.state_file_path = join(base_dir, <<"oauth_states.json">>),
                   !.dirs = @ \cup {base_dir},
                   !.made = IF base_dir \in i.dirs THEN NoPath ELSE base_dir]
    ELSE [i EXCEPT !.state_file_path = i.arg]

\* ------------------------------------------------------------- state
VARIABLES
    file,       \* the backing file at state_file_path
    clock,      \* datetime.now(timezone.utc)
    lock,       \* self._lock: its owner, or None
    pc,         \* per thread: where it is in its call
    args,       \* per thread: the call's operation and arguments
    states,     \* per thread: the local `states` table
    now,        \* per thread: `now` as _cleanup_expired_states read it
    rv,         \* per thread: what the call is about to return or raise, the
                \* severity of the log event for it, the failures it swallowed
    hist,       \* per state: "none", "issued", "redeemed" or "rejected"
    orig,       \* per state: the record of its latest issuance
    old,        \* per state: issued by an instance that is gone since
    inst        \* the instance: what __init__ was given, the directories
                \* that exist, and self.state_file_path once it has run

vars == <<file, clock, lock, pc, args, states, now, rv, hist, orig, old, inst>>

NoArgs == [op |-> "none", state |-> "", session_id |-> None, expires_in_seconds |-> 0]
NoRv == [outcome |-> "none", info |-> NoInfo, pre |-> "none", level |-> "none",
         swallowed |-> {}]
NoNow == -1

Keys == States \ {""}

Init ==
    /\ file = NoFile
    /\ clock = StartTime
    /\ lock = None
    /\ pc = [t \in Threads |-> "idle"]
    /\ args = [t \in Threads |-> NoArgs]
    /\ states = [t \in Threads |-> EmptyTable]
    /\ now = [t \in Threads |-> NoNow]
    /\ rv = [t \in Threads |-> NoRv]
    /\ hist = [k \in Keys |-> "none"]
    /\ orig = [k \in Keys |-> NoInfo]
    /\ old = [k \in Keys |-> FALSE]
    /\ inst = construct(Unconstructed(NoPath, EnvDir, HomeDir, {}))

ghost == <<hist, orig, old>>
locals == <<args, states, now, rv>>

\* The threads inside a `with self._lock` block.
Holders == {t \in Threads : pc[t] \in {"insert", "open", "dump", "release"}}

\* ------------------------------------------------------------- the clock
Tick ==
    /\ clock < StartTime + MaxTime
    /\ clock' = clock + 1
    /\ UNCHANGED <<inst, file, lock, pc, locals, ghost>>

\* ------------------------------------------------------------- calls
\* A call whose arguments pass the checks reaches `with self._lock`.  Nothing
\* reads its arguments before it owns the lock; they are drawn there.
Call(t) ==
    /\ pc[t] = "idle"
    /\ pc' = [pc EXCEPT ![t] = "wait"]
    /\ UNCHANGED <<inst, file, clock, lock, locals, ghost>>

\* store_oauth_state, lines 141-146: the lock is taken, the file loaded and
\* the expired records swept.  Only this thread sees the working table, so the
\* three statements are one step.
\* calls are the calls the caller may make; read_fails says whether open()
\* raises IOError on this load.  A load failure that is caught is logged and
\* the table is {}; one that is not caught is LoadRaises below.
\* own says that the thread has an instance of its own (it is itself the
\* identity of that instance): its lock is then held by nobody else, unless
\* instances share their lock, and the lock the model tracks is not touched.
can_enter(t, own) ==
    IF own THEN \A u \in Holders \ {t} : ~same_lock(u, t) ELSE lock_free(lock)

AcquireStoreAs(t, calls, read_fails, own) ==
    LET err == load_failure(file, read_fails) IN
    /\ pc[t] = "wait"
    /\ can_enter(t, own)
    /\ err = NoError \/ load_caught(err)
    /\ \E c \in calls :
        /\ c.op = "store"
        /\ store_arg_error(c.state, c.expires_in_seconds) = Returned
        /\ args' = [args EXCEPT ![t] = c]
    /\ lock' = IF own THEN lock ELSE t
    /\ states' = [states EXCEPT ![t] =
                    cleanup_expired_states(load_states_io(file, read_fails), clock)]
    /\ now' = [now EXCEPT ![t] = clock]
    /\ rv' = [rv EXCEPT ![t].swallowed = IF err = NoError THEN {} ELSE {"load"}]
    /\ pc' = [pc EXCEPT ![t] = "insert"]
    /\ UNCHANGED <<inst, file, clock, ghost>>

StoreCalls ==
    {[op |-> "store", state |-> state, session_id |-> session_id,
      expires_in_seconds |-> e] :
        state \in States, session_id \in StoreSessionIds, e \in Expirations}

AcquireStoreOf(t, calls, read_fails) == AcquireStoreAs(t, calls, read_fails, FALSE)

AcquireStore(t) == AcquireStoreOf(t, StoreCalls, FALSE)

\* store_oauth_state, lines 149-159 up to open(path, "w"): the record is stamped
\* with a second reading of the clock and put in the working table, and
\* _save_states opens the file, which truncates it.
stored_rv(t) ==
    [rv[t] EXCEPT !.outcome = Returned,
                  !.level = log_level(Returned),
                  !.pre = IF /\ hist[args[t].state] = "issued"
                             /\ orig[args[t].state].expires_at > now[t]
                          THEN "live" ELSE "none"]

Insert(t) ==
    /\ pc[t] = "insert"
    /\ states' = [states EXCEPT ![t] =
                    put(states[t], args[t].state,
                        new_record(args[t].session_id, args[t].expires_in_seconds, clock))]
    /\ rv' = [rv EXCEPT ![t] = stored_rv(t)]
    /\ file' = PartialJson
    /\ pc' = [pc EXCEPT ![t] = "dump"]
    /\ UNCHANGED <<inst, clock, lock, args, now, ghost>>

\* validate_and_consume_oauth_state, lines 186-210: the lock, the load, the
\* sweep, the lookup, the binding check and the deletion from the working table.
AcquireValidateAs(t, calls, read_fails, own) ==
    LET err == load_failure(file, read_fails) IN
    /\ pc[t] = "wait"
    /\ can_enter(t, own)
    /\ err = NoError \/ load_caught(err)
    /\ \E c \in calls :
        LET state == c.state
            tbl == cleanup_expired_states(load_states_io(file, read_fails), clock)
            out == lookup_outcome(tbl, state, c.session_id)
        IN
        /\ c.op = "validate"
        /\ validate_arg_error(state) = Returned
        /\ args' = [args EXCEPT ![t] = c]
        /\ rv' = [rv EXCEPT ![t] =
                    [outcome |-> out,
                     info |-> IF out = Returned THEN tbl[state] ELSE NoInfo,
                     pre |-> hist[state],
                     level |-> log_level(out),
                     swallowed |-> IF err = NoError THEN {} ELSE {"load"}]]
        /\ states' = [states EXCEPT ![t] = consume(tbl, state, out)]
        /\ IF ~saves(out)
           THEN /\ pc' = [pc EXCEPT ![t] = "release"]
                /\ UNCHANGED hist
           ELSE /\ hist' = [hist EXCEPT ![state] =
                              IF out = Returned THEN "redeemed" ELSE "rejected"]
                /\ pc' = [pc EXCEPT ![t] = "open"]
    /\ lock' = IF own THEN lock ELSE t
    /\ now' = [now EXCEPT ![t] = clock]
    /\ UNCHANGED <<inst, file, clock, orig, old>>

ValidateCalls ==
    {[op |-> "validate", state |-> state, session_id |-> session_id,
      expires_in_seconds |-> 0] :
        state \in States, session_id \in SessionIds}

AcquireValidateOf(t, calls, read_fails) ==
    AcquireValidateAs(t, calls, read_fails, FALSE)

AcquireValidate(t) == AcquireValidateOf(t, ValidateCalls, FALSE)

\* _save_states, line 92: open(path, "w") truncates the file.
Open(t) ==
    /\ pc[t] = "open"
    /\ file' = PartialJson
    /\ pc' = [pc EXCEPT ![t] = "dump"]
    /\ UNCHANGED <<inst, clock, lock, locals, ghost>>

\* _save_states, lines 93-95: json.dump and the close of the file.
Dump(t) ==
    LET state == args[t].state IN
    /\ pc[t] = "dump"
    /\ file' = JsonFile(serializable_states(states[t]))
    /\ pc' = [pc EXCEPT ![t] = "release"]
    /\ IF args[t].op = "store"
       THEN /\ hist' = [hist EXCEPT ![state] = "issued"]
            /\ orig' = [orig EXCEPT ![state] = states[t][state]]
            /\ old' = [old EXCEPT ![state] = FALSE]
       ELSE UNCHANGED ghost
    /\ UNCHANGED <<inst, clock, lock, locals>>

\* The end of the `with` block: the lock is released on return and on raise,
\* and the caller has the result.
Release(t) ==
    /\ pc[t] = "release"
    /\ lock' = release(lock, t)
    /\ pc' = [pc EXCEPT ![t] = "idle"]
    /\ args' = [args EXCEPT ![t] = NoArgs]
    /\ states' = [states EXCEPT ![t] = EmptyTable]
    /\ now' = [now EXCEPT ![t] = NoNow]
    /\ rv' = [rv EXCEPT ![t] = NoRv]
    /\ inst' = [inst EXCEPT !.records = instance_records(states[t])]
    /\ UNCHANGED <<file, clock, ghost>>

Step(t) ==
    \/ Call(t)
    \/ AcquireStore(t)
    \/ AcquireValidate(t)
    \/ Insert(t)
    \/ Open(t)
    \/ Dump(t)
    \/ Release(t)

Next == Tick \/ \E t \in Threads : Step(t)

Spec == Init /\ [][Next]_vars

\* ------------------------------------------------------------- bad arguments
\* store_oauth_state, lines 136-139: a bad argument raises ValueError before the
\* lock is taken.  The checks do not read session_id.
StoreReject(t) ==
    /\ pc[t] = "idle"
    /\ \E state \in States, session_id \in {None}, e \in Expirations :
        /\ store_arg_error(state, e) # Returned
        /\ args' = [args EXCEPT ![t] =
                     [op |-> "store", state |-> state, session_id |-> session_id,
                      expires_in_seconds |-> e]]
        /\ rv' = [rv EXCEPT ![t] =
                    [NoRv EXCEPT !.outcome = store_arg_error(state, e)]]
    /\ pc' = [pc EXCEPT ![t] = "raise"]
    /\ UNCHANGED <<inst, file, clock, lock, states, now, ghost>>

\* validate_and_consume_oauth_state, lines 183-184.
ValidateReject(t) ==
    /\ pc[t] = "idle"
    /\ \E state \in States, session_id \in {None} :
        /\ validate_arg_error(state) # Returned
        /\ args' = [args EXCEPT ![t] =
                     [op |-> "validate", state |-> state, session_id |-> session_id,
                      expires_in_seconds |-> 0]]
        /\ rv' = [rv EXCEPT ![t] =
                    [NoRv EXCEPT !.outcome = validate_arg_error(state)]]
    /\ pc' = [pc EXCEPT ![t] = "raise"]
    /\ UNCHANGED <<inst, file, clock, lock, states, now, ghost>>

\* The thread whose calls pass the argument checks while any thread makes the
\* calls that do not.
Caller == "t1"

\* The ValueError reaches the caller.
Raised(t) ==
    /\ pc[t] = "raise"
    /\ pc' = [pc EXCEPT ![t] = "idle"]
    /\ args' = [args EXCEPT ![t] = NoArgs]
    /\ rv' = [rv EXCEPT ![t] = NoRv]
    /\ UNCHANGED <<inst, file, clock, lock, states, now, ghost>>

NextArgs ==
    \/ Tick
    \/ Step(Caller)
    \/ \E t \in Threads : StoreReject(t)
    \/ \E t \in Threads : ValidateReject(t)
    \/ \E t \in Threads : Raised(t)

SpecArgs == Init /\ [][NextArgs]_vars

\* ------------------------------------------------------------- restarts
\* The instance is discarded between calls and PersistentOAuthStateStore(path)
\* is constructed again (__init__, lines 52-53): a new lock, the same file.
Restart ==
    /\ \A t \in Threads : pc[t] = "idle"
    /\ lock' = None
    /\ old' = [k \in Keys |-> hist[k] = "issued"]
    /\ UNCHANGED <<inst, file, clock, pc, locals, hist, orig>>

NextRestart == Next \/ Restart

SpecRestart == Init /\ [][NextRestart]_vars

\* The host process is killed at any point and launched again: its threads and
\* their working tables are gone, the file is as the last write left it.
Kill ==
    /\ lock' = None
    /\ old' = [k \in Keys |-> hist[k] = "issued"]
    /\ pc' = [t \in Threads |-> "idle"]
    /\ args' = [t \in Threads |-> NoArgs]
    /\ states' = [t \in Threads |-> EmptyTable]
    /\ now' = [t \in Threads |-> NoNow]
    /\ rv' = [t \in Threads |-> NoRv]
    /\ UNCHANGED <<inst, file, clock, hist, orig>>

NextKill == Next \/ Kill

SpecKill == Init /\ [][NextKill]_vars

\* ------------------------------------------------------------- faults
\* The file is damaged behind the store's back (another writer, a bad disk):
\* a broken document, a document that is a list, or a document with a record
\* whose expires_at is no timestamp.
BadTimeDoc ==
    [k \in {"s1"} |->
        [session_id |-> json_dump_value(None),
         expires_at |-> BadText,
         created_at |-> isoformat(StartTime)]]

Corrupt ==
    /\ lock = None
    /\ file.kind # "missing"
    /\ file' \in {PartialJson, ArrayJson, JsonFile(BadTimeDoc)}
    /\ file' # file
    /\ UNCHANGED <<inst, clock, lock, pc, locals, ghost>>

\* The calls made while faults are injected.
FaultCalls ==
    {[op |-> op, state |-> state, session_id |-> session_id,
      expires_in_seconds |-> IF op = "store" THEN TTL ELSE 0] :
        op \in {"store", "validate"}, state \in Keys, session_id \in {None, "A"}}

\* _load_states raises what line 75 does not catch: the exception leaves the
\* `with` block of the public operation and reaches the caller.
LoadRaises(t, calls) ==
    LET err == load_failure(file, FALSE) IN
    /\ pc[t] = "wait"
    /\ lock_free(lock)
    /\ err # NoError
    /\ ~load_caught(err)
    /\ \E c \in calls : args' = [args EXCEPT ![t] = c]
    /\ lock' = t
    /\ rv' = [rv EXCEPT ![t] = [NoRv EXCEPT !.outcome = err]]
    /\ pc' = [pc EXCEPT ![t] = "release"]
    /\ UNCHANGED <<inst, file, clock, states, now, ghost>>

\* _save_states, lines 97-98: an IOError is logged and the function returns;
\* any other handling lets the exception reach the caller.
after_save_error(r, err) ==
    IF save_caught(err)
    THEN [r EXCEPT !.swallowed = @ \cup {"save"}]
    ELSE [r EXCEPT !.outcome = err, !.info = NoInfo, !.level = "none"]

\* store_oauth_state: Insert, with open(path, "w") raising IOError: the file
\* is as it was.
InsertOpenFails(t) ==
    /\ pc[t] = "insert"
    /\ states' = [states EXCEPT ![t] =
                    put(states[t], args[t].state,
                        new_record(args[t].session_id, args[t].expires_in_seconds, clock))]
    /\ rv' = [rv EXCEPT ![t] = after_save_error(stored_rv(t), "IOError")]
    /\ pc' = [pc EXCEPT ![t] = "release"]
    /\ UNCHANGED <<inst, file, clock, lock, args, now, ghost>>

\* validate_and_consume_oauth_state: Open, with open(path, "w") raising IOError.
OpenFails(t) ==
    /\ pc[t] = "open"
    /\ rv' = [rv EXCEPT ![t] = after_save_error(rv[t], "IOError")]
    /\ pc' = [pc EXCEPT ![t] = "release"]
    /\ UNCHANGED <<inst, file, clock, lock, args, states, now, ghost>>

\* _save_states, line 93: json.dump raises IOError part of the way (a full
\* disk): the file keeps the prefix written so far.
DumpFails(t) ==
    /\ pc[t] = "dump"
    /\ rv' = [rv EXCEPT ![t] = after_save_error(rv[t], "IOError")]
    /\ pc' = [pc EXCEPT ![t] = "release"]
    /\ UNCHANGED <<inst, file, clock, lock, args, states, now, ghost>>

StepFault(t) ==
    \/ Call(t)
    \/ \E read_fails \in BOOLEAN : AcquireStoreOf(t, FaultCalls, read_fails)
    \/ \E read_fails \in BOOLEAN : AcquireValidateOf(t, FaultCalls, read_fails)
    \/ LoadRaises(t, FaultCalls)
    \/ Insert(t)
    \/ InsertOpenFails(t)
    \/ Open(t)
    \/ OpenFails(t)
    \/ Dump(t)
    \/ DumpFails(t)
    \/ Release(t)

NextFault ==
    \/ Tick
    \/ Corrupt
    \/ StepFault(Caller)
    \/ StoreReject(Caller)
    \/ ValidateReject(Caller)
    \/ Raised(Caller)

SpecFault == Init /\ [][NextFault]_vars

\* ------------------------------------------------------------- the caller
\* validate_and_consume_oauth_state returns state_info (line 214), the dict
\* taken from the call's table: the caller keeps it, changes it, lets it go.
\* Return is Release for a call that hands back a record the caller keeps.
Return(t) ==
    /\ pc[t] = "release"
    /\ args[t].op = "validate"
    /\ rv[t].outcome = Returned
    /\ lock' = release(lock, t)
    /\ pc' = [pc EXCEPT ![t] = "held"]
    /\ states' = [states EXCEPT ![t] = EmptyTable]
    /\ now' = [now EXCEPT ![t] = NoNow]
    /\ inst' = [inst EXCEPT !.records = instance_records(states[t])]
    /\ UNCHANGED <<file, clock, args, rv, ghost>>

\* What the caller makes of the record: another session, a later expiry.
mutated(info) ==
    [info EXCEPT !.session_id = "M", !.expires_at = @ + TTL]

\* The caller changes the dict it holds; a table the instance kept from the
\* call would refer to the same dict under the state's key.
Mutate(t) ==
    /\ pc[t] = "held"
    /\ rv[t].info.session_id # "M"
    /\ rv' = [rv EXCEPT ![t].info = mutated(@)]
    /\ inst' = [inst EXCEPT !.records =
                  [k \in DOMAIN @ |->
                     IF k = args[t].state THEN mutated(@[k]) ELSE @[k]]]
    /\ UNCHANGED <<file, clock, lock, pc, args, states, now, ghost>>

Drop(t) ==
    /\ pc[t] = "held"
    /\ pc' = [pc EXCEPT ![t] = "idle"]
    /\ args' = [args EXCEPT ![t] = NoArgs]
    /\ rv' = [rv EXCEPT ![t] = NoRv]
    /\ UNCHANGED <<inst, file, clock, lock, states, now, ghost>>

StepCaller(t) ==
    \/ Call(t)
    \/ AcquireStoreOf(t, FaultCalls, FALSE)
    \/ AcquireValidateOf(t, FaultCalls, FALSE)
    \/ Insert(t)
    \/ Open(t)
    \/ Dump(t)
    \/ Release(t)
    \/ Return(t)
    \/ Mutate(t)
    \/ Drop(t)

NextCaller == Tick \/ \E t \in Threads : StepCaller(t)

SpecCaller == Init /\ [][NextCaller]_vars

\* ------------------------------------------------------------- two writers
\* Each thread is a writer with a store instance of its own (or a process of
\* its own) on the one backing file.
TwoCalls ==
    {[op |-> op, state |-> state, session_id |-> None,
      expires_in_seconds |-> IF op = "store" THEN TTL ELSE 0] :
        op \in {"store", "validate"}, state \in Keys}

AcquireStoreTwo(t) == AcquireStoreAs(t, TwoCalls, FALSE, TRUE)
AcquireValidateTwo(t) == AcquireValidateAs(t, TwoCalls, FALSE, TRUE)

StepTwo(t) ==
    \/ Call(t)
    \/ AcquireStoreTwo(t)
    \/ AcquireValidateTwo(t)
    \/ Insert(t)
    \/ Open(t)
    \/ Dump(t)
    \/ Release(t)

\* The clock stands still: no record expires while the two writers race.
NextTwo == \E t \in Threads : StepTwo(t)

SpecTwo == Init /\ [][NextTwo]_vars

\* ------------------------------------------------------------- progress
\* Two threads of one instance, with every way out of the critical section:
\* return, the two rejections, a write failure that is swallowed and an
\* exception out of the load.  The clock stands still.
LiveCalls ==
    {[op |-> op, state |-> "s1", session_id |-> session_id,
      expires_in_seconds |-> IF op = "store" THEN TTL ELSE 0] :
        op \in {"store", "validate"}, session_id \in {None, "A"}}

\* `with self._lock` is entered and the file loaded.
Enter(t) ==
    \/ \E read_fails \in BOOLEAN : AcquireStoreOf(t, LiveCalls, read_fails)
    \/ \E read_fails \in BOOLEAN : AcquireValidateOf(t, LiveCalls, read_fails)
    \/ LoadRaises(t, LiveCalls)

\* The steps of a thread that owns the lock, to the end of the `with` block.
Inside(t) ==
    \/ Insert(t)
    \/ InsertOpenFails(t)
    \/ Open(t)
    \/ OpenFails(t)
    \/ Dump(t)
    \/ DumpFails(t)
    \/ Release(t)

NextLive ==
    \/ Corrupt
    \/ \E t \in Threads : Call(t)
    \/ \E t \in Threads : Enter(t)
    \/ \E t \in Threads : Inside(t)

\* The scheduler runs every thread that stays runnable: a thread inside the
\* block goes on, and the lock is taken when it stays free while a thread
\* waits.  RLock promises no order among the waiting threads, and no caller
\* is bound to call.
FairScheduling ==
    \A t \in Threads : WF_vars(Inside(t)) /\ WF_vars(Enter(t))

SpecLive == Init /\ [][NextLive]_vars /\ FairScheduling

\* ------------------------------------------------------------- the singleton
\* get_persistent_oauth_state_store, lines 221-228, statement by statement; no
\* lock is taken.  The instances PersistentOAuthStateStore() makes are named
\* in the order of their making.
InstanceNames == <<"store1", "store2">>

\* line 225: if _global_state_store is None
GetCheck(t) ==
    /\ pc[t] = "idle"
    /\ pc' = [pc EXCEPT ![t] =
                IF inst.global_state_store = None THEN "construct" ELSE "fetch"]
    /\ UNCHANGED <<inst, file, clock, lock, locals, ghost>>

\* line 226: _global_state_store = PersistentOAuthStateStore()
GetConstruct(t) ==
    /\ pc[t] = "construct"
    /\ inst.instances < Len(InstanceNames)
    /\ inst' = [inst EXCEPT !.instances = @ + 1,
                            !.global_state_store = InstanceNames[inst.instances + 1]]
    /\ pc' = [pc EXCEPT ![t] = "fetch"]
    /\ UNCHANGED <<file, clock, lock, locals, ghost>>

\* line 228: return _global_state_store
GetFetch(t) ==
    /\ pc[t] = "fetch"
    /\ rv' = [rv EXCEPT ![t] = [NoRv EXCEPT !.outcome = inst.global_state_store]]
    /\ pc' = [pc EXCEPT ![t] = "got"]
    /\ UNCHANGED <<inst, file, clock, lock, args, states, now, ghost>>

\* The caller is done with the call.
GetDone(t) ==
    /\ pc[t] = "got"
    /\ rv' = [rv EXCEPT ![t] = NoRv]
    /\ pc' = [pc EXCEPT ![t] = "idle"]
    /\ UNCHANGED <<inst, file, clock, lock, args, states, now, ghost>>

NextSingleton ==
    \/ Tick
    \/ \E t \in Threads : GetCheck(t)
    \/ \E t \in Threads : GetConstruct(t)
    \/ \E t \in Threads : GetFetch(t)
    \/ \E t \in Threads : GetDone(t)

SpecSingleton == Init /\ [][NextSingleton]_vars

\* ------------------------------------------------------------- three states
\* One thread issues three states one call after the other.
SweepKeys == {"s1", "s2", "s3"}
SweepCalls ==
    {[op |-> "store", state |-> state, session_id |-> None,
      expires_in_seconds |-> e] :
        state \in SweepKeys, e \in {0, TTL}}

InitSweep ==
    /\ file = NoFile
    /\ clock = StartTime
    /\ lock = None
    /\ pc = [t \in Threads |-> "idle"]
    /\ args = [t \in Threads |-> NoArgs]
    /\ states = [t \in Threads |-> EmptyTable]
    /\ now = [t \in Threads |-> NoNow]
    /\ rv = [t \in Threads |-> NoRv]
    /\ hist = [k \in SweepKeys |-> "none"]
    /\ orig = [k \in SweepKeys |-> NoInfo]
    /\ old = [k \in SweepKeys |-> FALSE]
    /\ inst = construct(Unconstructed(NoPath, EnvDir, HomeDir, {}))

NextSweep ==
    \/ Tick
    \/ Call(Caller)
    \/ AcquireStoreOf(Caller, SweepCalls, FALSE)
    \/ Insert(Caller)
    \/ Dump(Caller)
    \/ Release(Caller)

SpecSweep == InitSweep /\ [][NextSweep]_vars

\* ------------------------------------------------------------- construction
\* PersistentOAuthStateStore(state_file_path) in every environment: with and
\* without the argument, the variable unset, empty or set, the home directory
\* resolved or not, each directory existing or not.
PathArgs == {NoPath, ExplicitPath}
EnvValues == {NoPath, <<>>, EnvDir}
HomeValues == {<<>>, <<"~">>, HomeDir}
Dirs ==
    {EnvDir, join(HomeDir, <<".google_workspace_mcp", "credentials">>),
     join(CwdDir, <<".credentials">>), dirname(ExplicitPath)}

InitCtor ==
    /\ file = NoFile
    /\ clock = StartTime
    /\ lock = None
    /\ pc = [t \in Threads |-> "idle"]
    /\ args = [t \in Threads |-> NoArgs]
    /\ states = [t \in Threads |-> EmptyTable]
    /\ now = [t \in Threads |-> NoNow]
    /\ rv = [t \in Threads |-> NoRv]
    /\ hist = [k \in Keys |-> "none"]
    /\ orig = [k \in Keys |-> NoInfo]
    /\ old = [k \in Keys |-> FALSE]
    /\ \E arg \in PathArgs, env \in EnvValues, home \in HomeValues,
          dirs \in SUBSET Dirs :
            inst = Unconstructed(arg, env, home, dirs)

Construct ==
    /\ inst.state_file_path = NoPath
    /\ inst' = construct(inst)
    /\ UNCHANGED <<file, clock, lock, pc, locals, ghost>>

NextCtor == Construct

SpecCtor == InitCtor /\ [][NextCtor]_vars

\* ------------------------------------------------------------- properties
\* A call is read where its `with` block ends: the thread still owns the lock,
\* args holds its arguments, rv what the caller is about to get, now the time of
\* its sweep.
InCS == {t \in Threads : pc[t] \in {"insert", "open", "dump", "release"}}
Validated(t) == pc[t] = "release" /\ args[t].op = "validate"
Stored(t) == pc[t] = "release" /\ args[t].op = "store"
Quiet == InCS = {}

\* The file holds the record of the latest issuance of k.
Persisted(k) ==
    /\ file.kind = "json"
    /\ k \in DOMAIN file.data
    /\ load_states(file)[k] = orig[k]

Absent(k) == file.kind = "json" /\ k \notin DOMAIN file.data

\* C1, as the spec states it: after store_oauth_state(S, sid, ttl) the first
\* validate_and_consume_oauth_state(S, sid) succeeds, whatever ttl is, and every
\* call after a success fails with the invalid-state error.
C1_ExactlyOneSucceeds ==
    \A t \in Threads : Validated(t) =>
        LET k == args[t].state IN
        /\ (rv[t].pre = "issued" /\ args[t].session_id = orig[k].session_id)
              => rv[t].outcome = Returned
        /\ rv[t].pre = "redeemed" => rv[t].outcome = ErrInvalid

\* C1, amended: at most one validation of an issuance succeeds.  The first
\* validate_and_consume_oauth_state(S, sid) succeeds when the record's
\* expires_at is later than the time of that call's sweep; a success is always
\* the redemption of an issuance not redeemed before; every call after a
\* success fails with the invalid-state error.
C1_ConsumeOnce ==
    \A t \in Threads : Validated(t) =>
        LET k == args[t].state IN
        /\ (/\ rv[t].pre = "issued"
            /\ args[t].session_id = orig[k].session_id
            /\ orig[k].expires_at > now[t])
              => rv[t].outcome = Returned
        /\ rv[t].outcome = Returned => rv[t].pre = "issued"
        /\ rv[t].pre = "redeemed" => rv[t].outcome = ErrInvalid

\* A second validation of a redeemed state, by the session it was issued for,
\* is refused.
C1_Witness ==
    \E t \in Threads :
        /\ Validated(t)
        /\ rv[t].pre = "redeemed"
        /\ args[t].session_id = orig[args[t].state].session_id
        /\ rv[t].outcome = ErrInvalid

\* C2: a validation that finds a record bound to a non-empty session other than
\* the caller's non-empty session fails with the session-mismatch error and
\* leaves the file without the record; a validation of a state consumed that
\* way fails with the invalid-state error, the right session included.
C2_SessionBinding ==
    \A t \in Threads : Validated(t) =>
        LET k == args[t].state IN
        /\ (/\ rv[t].pre = "issued"
            /\ orig[k].expires_at > now[t]
            /\ Truthy(orig[k].session_id)
            /\ Truthy(args[t].session_id)
            /\ orig[k].session_id # args[t].session_id)
              => rv[t].outcome = ErrMismatch /\ Absent(k)
        /\ rv[t].pre = "rejected" => rv[t].outcome = ErrInvalid

\* The initiating session comes back after the mismatch and is refused.
C2_Witness ==
    \E t \in Threads :
        /\ Validated(t)
        /\ rv[t].pre = "rejected"
        /\ args[t].session_id = orig[args[t].state].session_id
        /\ rv[t].outcome = ErrInvalid

\* C3: a record validate_and_consume_oauth_state returns expires strictly after
\* the time of the call's sweep (which is not before the call), and was not
\* returned by an earlier call.
C3_VisibleUntilConsumedOrExpired ==
    \A t \in Threads : (Validated(t) /\ rv[t].outcome = Returned) =>
        /\ rv[t].info.expires_at > now[t]
        /\ rv[t].pre # "redeemed"
        /\ rv[t].pre # "rejected"

\* A record issued with a positive ttl is refused at the instant it expires.
C3_Witness ==
    \E t \in Threads :
        LET k == args[t].state IN
        /\ Validated(t)
        /\ rv[t].pre = "issued"
        /\ orig[k].expires_at > orig[k].created_at
        /\ orig[k].expires_at = now[t]
        /\ rv[t].outcome = ErrInvalid

\* C4: store_oauth_state(S, sid, 0) returns normally, and every validation of
\* the record it issued fails with the invalid-state error.
C4_ZeroTtl ==
    /\ \A t \in Threads :
         (Stored(t) /\ args[t].expires_in_seconds = 0) => rv[t].outcome = Returned
    /\ \A t \in Threads : Validated(t) =>
         LET k == args[t].state IN
         (rv[t].pre = "issued" /\ orig[k].expires_at = orig[k].created_at)
            => rv[t].outcome = ErrInvalid

\* A zero-ttl record is refused at the very instant it was issued.
C4_Witness ==
    \E t \in Threads :
        LET k == args[t].state IN
        /\ Validated(t)
        /\ rv[t].pre = "issued"
        /\ orig[k].expires_at = orig[k].created_at
        /\ orig[k].created_at = now[t]
        /\ rv[t].outcome = ErrInvalid

\* C5: a record issued by an instance that was discarded since is redeemed on
\* the new instance by its session, before its expiry, and comes back with the
\* created_at and session_id (and expires_at) it was issued with.
C5_RestartSurvival ==
    \A t \in Threads : Validated(t) =>
        LET k == args[t].state IN
        (/\ rv[t].pre = "issued"
         /\ old[k]
         /\ args[t].session_id = orig[k].session_id
         /\ orig[k].expires_at > now[t])
           => /\ rv[t].outcome = Returned
              /\ rv[t].info.created_at = orig[k].created_at
              /\ rv[t].info.session_id = orig[k].session_id
              /\ rv[t].info.expires_at = orig[k].expires_at

\* A record stamped with a two-digit time survives a restart and is redeemed
\* later than it was issued.
C5_Witness ==
    \E t \in Threads :
        LET k == args[t].state IN
        /\ Validated(t)
        /\ old[k]
        /\ rv[t].pre = "issued"
        /\ rv[t].outcome = Returned
        /\ Truthy(rv[t].info.session_id)
        /\ rv[t].info.created_at >= 10
        /\ now[t] > rv[t].info.created_at

\* C6: whenever the process has no call in progress (a relaunched process starts
\* so), every record issued, not consumed and not expired is in the file as it
\* was issued.
C6_KillSurvival ==
    (\A t \in Threads : pc[t] = "idle") =>
        \A k \in Keys :
            (hist[k] = "issued" /\ orig[k].expires_at > clock) => Persisted(k)

\* C7: at most one thread is between `with self._lock` and the end of the block,
\* and it owns the lock; with no thread there, every record issued, not consumed
\* and not expired is in the file (no issue is lost to a concurrent rewrite);
\* and a validation succeeds only on an issuance nobody redeemed or was refused
\* before (concurrent validations of one state have one winner).
C7_Serialized ==
    /\ Cardinality(InCS) <= 1
    /\ \A t \in InCS : lock = t
    /\ Quiet => lock = None
    /\ Quiet => \A k \in Keys :
         (hist[k] = "issued" /\ orig[k].expires_at > clock) => Persisted(k)
    /\ \A t \in Threads :
         (Validated(t) /\ rv[t].outcome = Returned) => rv[t].pre = "issued"

\* A store ends while the other thread waits for the lock, and both states are
\* in the file.
C7_Witness ==
    \E t \in Threads, u \in Threads :
        /\ t # u
        /\ Stored(t)
        /\ pc[u] = "wait"
        /\ \A k \in Keys : hist[k] = "issued" /\ Persisted(k)

\* C8: a validation of S that follows the issue of S finds the issued record:
\* unless S was consumed since or has expired by the sweep, the call does not
\* take the absent-record branch, and what it returns is the record issued.
C8_IssueThenValidate ==
    \A t \in Threads : Validated(t) =>
        LET k == args[t].state IN
        (rv[t].pre = "issued" /\ orig[k].expires_at > now[t])
           => /\ rv[t].outcome # ErrInvalid
              /\ rv[t].outcome = Returned => rv[t].info = orig[k]

\* A record is found by a validation made later than its issue.
C8_Witness ==
    \E t \in Threads :
        /\ Validated(t)
        /\ rv[t].pre = "issued"
        /\ rv[t].outcome = Returned
        /\ now[t] > rv[t].info.created_at

\* C9: a validation that finds the record succeeds exactly when the stored
\* session_id is None or empty, or the caller's is, or the two are equal; on
\* success it returns the record as issued (session_id None stays None) and the
\* file no longer holds the record.
C9_BindingRule ==
    \A t \in Threads : (Validated(t) /\ rv[t].outcome # ErrInvalid) =>
        LET k == args[t].state
            bound == orig[k].session_id
            given == args[t].session_id
        IN
        /\ rv[t].outcome \in {Returned, ErrMismatch}
        /\ rv[t].outcome = Returned
              <=> (~Truthy(bound) \/ ~Truthy(given) \/ bound = given)
        /\ rv[t].outcome = Returned => (rv[t].info = orig[k] /\ Absent(k))

\* A record issued with session_id None is redeemed by session "A".
C9_Witness ==
    \E t \in Threads :
        /\ Validated(t)
        /\ rv[t].outcome = Returned
        /\ args[t].session_id = "A"
        /\ orig[args[t].state].session_id = None
        /\ rv[t].info.session_id = None

\* C10: a call with an empty state, or a store with a negative
\* expires_in_seconds, raises the ValueError of its argument check and never
\* reaches the lock, the load, the sweep or the write; the step that raises
\* leaves the file as it was.
BadArgs(a) ==
    \/ a.state = ""
    \/ a.op = "store" /\ a.expires_in_seconds < 0

C10_ArgsChecked ==
    \A t \in Threads : args[t].op # "none" =>
        /\ BadArgs(args[t]) <=> pc[t] = "raise"
        /\ pc[t] = "raise" =>
             rv[t].outcome =
                IF args[t].op = "validate" THEN ErrMissing
                ELSE IF args[t].state = "" THEN ErrNoState
                ELSE ErrNegative

C10_InvalidArguments ==
    /\ []C10_ArgsChecked
    /\ [][\A t \in Threads :
            (pc'[t] = "raise" /\ pc[t] # "raise") => file' = file]_vars

\* A negative expires_in_seconds is refused while the file holds a record.
C10_Witness ==
    \E t \in Threads :
        /\ pc[t] = "raise"
        /\ args[t].state # ""
        /\ args[t].expires_in_seconds < 0
        /\ file.kind = "json"
        /\ DOMAIN file.data # {}

\* C11: a validation of a state that was never issued, was consumed (redeemed
\* or refused for its session) or has expired by the call's sweep gives the
\* caller one and the same result: the invalid-state ValueError, no record, the
\* same log event, nothing swallowed; and the step that decides it leaves the
\* file as it was, whichever of the causes holds.
Gone(t) ==
    \/ rv[t].pre \in {"none", "redeemed", "rejected"}
    \/ rv[t].pre = "issued" /\ orig[args[t].state].expires_at <= now[t]

C11_SameResult ==
    \A t \in Threads : (Validated(t) /\ Gone(t)) =>
        rv[t] = [outcome |-> ErrInvalid, info |-> NoInfo, pre |-> rv[t].pre,
                 level |-> "ERROR", swallowed |-> {}]

C11_IndistinguishableAbsence ==
    /\ []C11_SameResult
    /\ [][\A t \in Threads :
            (pc[t] = "wait" /\ pc'[t] = "release") => file' = file]_vars

\* An expired record is refused like an unknown state while the file still
\* holds it.
C11_Witness ==
    \E t \in Threads :
        /\ Validated(t)
        /\ rv[t].pre = "issued"
        /\ rv[t].outcome = ErrInvalid
        /\ file.kind = "json"
        /\ args[t].state \in DOMAIN file.data

\* C12, as the spec states it: after A (ttl 0) and B (positive ttl) are issued,
\* A stays in the file until the issuance of a third state C sweeps it; when
\* C's issuance returns the file is without A and holds B.
ZeroTtl(k) == hist[k] = "issued" /\ orig[k].expires_at = orig[k].created_at
LongTtl(k) == hist[k] = "issued" /\ orig[k].expires_at > orig[k].created_at

C12_AfterThird ==
    \A t \in Threads : Stored(t) =>
        \A a \in SweepKeys, b \in SweepKeys :
            (/\ a # b
             /\ a # args[t].state
             /\ b # args[t].state
             /\ ZeroTtl(a)
             /\ LongTtl(b)
             /\ orig[b].expires_at > now[t])
               => /\ file.kind = "json"
                  /\ a \notin DOMAIN file.data
                  /\ Persisted(b)

C12_SweptAtThird ==
    /\ C12_AfterThird
    /\ \A t \in Threads : Stored(t) =>
        \A a \in SweepKeys :
            (/\ a # args[t].state
             /\ ZeroTtl(a)
             /\ LongTtl(args[t].state)
             /\ \A c \in SweepKeys \ {a, args[t].state} : hist[c] = "none")
               => /\ file.kind = "json"
                  /\ a \in DOMAIN file.data

\* C12, amended: when C's issuance returns the file is without A and holds B
\* (B not expired by C's sweep); A is swept by the first issuance that follows
\* its own, B's, not C's: when the issuance of any other state returns, the
\* file holds no record issued with ttl 0.
C12_SweepCorrectness ==
    /\ C12_AfterThird
    /\ \A t \in Threads : Stored(t) =>
        \A a \in SweepKeys \ {args[t].state} : ZeroTtl(a) => Absent(a)

\* The third issuance returns: A is gone, B and C are in the file.
C12_Witness ==
    \E t \in Threads, a \in SweepKeys, b \in SweepKeys :
        /\ Stored(t)
        /\ Cardinality({a, b, args[t].state}) = 3
        /\ ZeroTtl(a)
        /\ LongTtl(b)
        /\ orig[b].expires_at > now[t]
        /\ Absent(a)
        /\ Persisted(b)
        /\ Persisted(args[t].state)

\* C13: when a public operation returns or raises out of its `with` block, the
\* file holds the table the operation computed (every change of the working
\* table, the removals of the sweep included, has been written).
C13_PersistAfterMutation ==
    \A t \in Threads : pc[t] = "release" => load_states(file) = states[t]

\* C14: whatever the file holds (a broken document, a list, a record with an
\* unparseable timestamp) and whether or not it can be read, the public
\* operation proceeds: its outcome is a return, the invalid-state error or the
\* session-mismatch error, never an exception of the load.
C14_LoadTolerant ==
    \A t \in Threads : pc[t] = "release" =>
        rv[t].outcome \in {Returned, ErrInvalid, ErrMismatch}

\* C15: a write that fails (open or json.dump raising IOError) puts no IOError
\* in the caller's hands: an issue returns normally, a validation returns the
\* record it found or raises the error its lookup decided, as they do when the
\* write succeeds.
LoadExceptions == {"AttributeError", "ValueError"}

C15_WriteFaultSwallowed ==
    \A t \in Threads : (pc[t] = "release" /\ rv[t].outcome \notin LoadExceptions) =>
        /\ Stored(t) => rv[t].outcome = Returned
        /\ Validated(t) =>
            /\ rv[t].outcome \in {Returned, ErrInvalid, ErrMismatch}
            /\ rv[t].outcome = Returned =>
                 (rv[t].info # NoInfo /\ args[t].state \notin DOMAIN states[t])
            /\ rv[t].outcome = ErrInvalid => "save" \notin rv[t].swallowed

\* A validation returns the record although the write failed: the file still
\* holds the record.
C15_Witness ==
    \E t \in Threads :
        /\ Validated(t)
        /\ "save" \in rv[t].swallowed
        /\ rv[t].outcome = Returned
        /\ file.kind = "json"
        /\ args[t].state \in DOMAIN file.data

\* C16: when store_oauth_state(S, sid, ttl) returns for a state S that had an
\* unexpired record, the file holds one record for S, the one this call made:
\* bound to sid, created at the call's time, expiring ttl later.  (The binding
\* a later validation is judged by is that record's: C9 reads orig, the record
\* of the latest issuance.)
C16_CollisionOverwrite ==
    \A t \in Threads : (Stored(t) /\ rv[t].pre = "live") =>
        LET k == args[t].state IN
        /\ Persisted(k)
        /\ load_states(file)[k].session_id = args[t].session_id
        /\ load_states(file)[k].created_at >= now[t]
        /\ load_states(file)[k].created_at <= clock
        /\ load_states(file)[k].expires_at =
              load_states(file)[k].created_at + args[t].expires_in_seconds

\* A state issued for no session is issued again for session "A" while its
\* first record is unexpired.
C16_Witness ==
    \E t \in Threads :
        /\ Stored(t)
        /\ rv[t].pre = "live"
        /\ args[t].session_id = "A"
        /\ Persisted(args[t].state)

\* C17: every record in the file is the record of the latest issuance of its
\* state, field for field: from the write that created it until the write that
\* drops it (or the issuance that replaces it) no rewrite of the file changes
\* its session_id, created_at or expires_at.
C17_RecordImmutable ==
    file.kind = "json" =>
        \A k \in DOMAIN file.data : k \in Keys /\ load_states(file)[k] = orig[k]

\* The record of one state has gone through the rewrite made by a later
\* issuance of the other state.
C17_Witness ==
    \E t \in Threads, k \in Keys :
        /\ Stored(t)
        /\ k # args[t].state
        /\ Persisted(k)
        /\ Truthy(orig[k].session_id)
        /\ orig[k].created_at < orig[args[t].state].created_at

\* C18, as the spec states it: a call ends with a return or with one of the
\* ValueErrors of the argument checks, the absent state or the session
\* mismatch, and it has swallowed no failure but one of the write.
TypedErrors == {ErrNoState, ErrNegative, ErrMissing, ErrInvalid, ErrMismatch}
Ended(t) == pc[t] \in {"release", "raise"}

C18_TypedOrWriteOnly ==
    \A t \in Threads : Ended(t) =>
        /\ rv[t].outcome \in TypedErrors \cup {Returned}
        /\ rv[t].swallowed \subseteq {"save"}

\* C18, amended: the failures the operations detect themselves reach the caller
\* as ValueErrors with five different messages; an IOError of the write, and an
\* IOError or JSONDecodeError of the load, are logged and swallowed; any other
\* exception of the load (AttributeError on a document that is no object,
\* ValueError on a text that is no timestamp) reaches the caller as it is, the
\* file being so damaged.
C18_FailurePropagation ==
    /\ Cardinality(TypedErrors) = 5
    /\ \A t \in Threads : Ended(t) =>
        /\ rv[t].outcome \in TypedErrors \cup {Returned} \cup LoadExceptions
        /\ rv[t].swallowed \subseteq {"load", "save"}
        /\ rv[t].outcome \in LoadExceptions => load_failure(file, FALSE) = rv[t].outcome
        /\ rv[t].outcome \in {ErrNoState, ErrNegative, ErrMissing} <=> pc[t] = "raise"

\* A store returns normally after its load failed and was swallowed.
C18_Witness ==
    \E t \in Threads :
        /\ Stored(t)
        /\ "load" \in rv[t].swallowed
        /\ rv[t].outcome = Returned

\* C19: the log event of a session-mismatch rejection has another severity
\* than the log event of an invalid-state rejection.
C19_DistinctSeverity ==
    \A t \in Threads :
        (Validated(t) /\ rv[t].outcome = ErrMismatch)
           => rv[t].level # log_level(ErrInvalid)

\* C20, the path: self.state_file_path is the argument when one is given,
\* else oauth_states.json under the directory of the variable when it is set
\* and not empty, else under <home>/.google_workspace_mcp/credentials when the
\* home directory resolves, else under <cwd>/.credentials.
Constructed == inst.state_file_path # NoPath
HomeResolves == inst.home # <<>> /\ inst.home # <<"~">>

C20_Path ==
    Constructed =>
        inst.state_file_path =
            IF inst.arg # NoPath THEN inst.arg
            ELSE IF inst.env # NoPath /\ inst.env # <<>>
                 THEN inst.env \o <<"oauth_states.json">>
            ELSE IF HomeResolves
                 THEN inst.home \o
                        <<".google_workspace_mcp", "credentials", "oauth_states.json">>
            ELSE CwdDir \o <<".credentials", "oauth_states.json">>

\* C20, as the spec states it: the path, and the directory of the file exists
\* once the constructor has run.
C20_DirectoryAlwaysCreated ==
    /\ C20_Path
    /\ Constructed => dirname(inst.state_file_path) \in inst.dirs

\* C20, amended: the path, and the directory of the file exists once the
\* constructor has run without a path argument; the directory of a path given
\* as argument is not created.
C20_LocationResolution ==
    /\ C20_Path
    /\ (Constructed /\ inst.arg = NoPath) =>
          dirname(inst.state_file_path) \in inst.dirs
    /\ (Constructed /\ inst.arg # NoPath) => inst.made = NoPath

\* The variable is empty and the home directory does not resolve: the
\* constructor makes <cwd>/.credentials.
C20_Witness ==
    /\ Constructed
    /\ inst.arg = NoPath
    /\ inst.env = <<>>
    /\ inst.home = <<"~">>
    /\ inst.made = CwdDir \o <<".credentials">>
    /\ inst.state_file_path = CwdDir \o <<".credentials", "oauth_states.json">>

\* C22: once an operation has loaded the file and swept, its working table is
\* the file's table without every record whose expires_at is at or before the
\* time the sweep read, and with every record whose expires_at is later,
\* field for field (a validation has also taken out the record it found).
SweptFile(t) ==
    LET tbl == load_states(file) IN
    [k \in {x \in DOMAIN tbl : tbl[x].expires_at > now[t]} |-> tbl[k]]

C22_ExpirySweep ==
    \A t \in Threads :
        /\ pc[t] = "insert" => (states[t] = SweptFile(t) /\ now[t] <= clock)
        /\ (Validated(t) /\ rv[t].outcome = ErrInvalid) => states[t] = SweptFile(t)
        /\ pc[t] = "open" =>
             /\ args[t].state \in DOMAIN SweptFile(t)
             /\ states[t] =
                  [k \in DOMAIN SweptFile(t) \ {args[t].state} |-> SweptFile(t)[k]]

\* A store has swept the record that expires at this very instant and kept
\* the one that expires later.
C22_Witness ==
    \E t \in Threads, a \in Keys, b \in Keys :
        /\ pc[t] = "insert"
        /\ file.kind = "json"
        /\ a \in DOMAIN file.data
        /\ b \in DOMAIN file.data
        /\ load_states(file)[a].expires_at = now[t]
        /\ load_states(file)[b].expires_at > now[t]
        /\ a \notin DOMAIN states[t]
        /\ b \in DOMAIN states[t]

\* C23: when a store operation returns or raises, the file holds no record that
\* had expired by the operation's sweep (the record a store has just issued
\* aside).
C23_LazyRemoval ==
    \A t \in Threads : (pc[t] = "release" /\ file.kind = "json") =>
        \A k \in DOMAIN file.data :
            \/ Stored(t) /\ k = args[t].state
            \/ load_states(file)[k].expires_at > now[t]

C29_InvalidStateNoWrite ==
    [][\A t \in Threads :
        /\ (pc[t] = "wait" /\ rv'[t].outcome = ErrInvalid)
              => (file' = file /\ pc'[t] = "release")
        /\ (Validated(t) /\ rv[t].outcome = ErrInvalid) => file' = file]_vars

\* The call has swept the expired record of another state from its working
\* table and the file still holds it.
C29_Witness ==
    \E t \in Threads, k \in Keys :
        /\ Validated(t)
        /\ rv[t].outcome = ErrInvalid
        /\ k # args[t].state
        /\ file.kind = "json"
        /\ k \in DOMAIN file.data
        /\ k \notin DOMAIN states[t]

\* C27, as the spec states it: a validation whose write failed leaves S in the
\* file.
C27_RecordRemains ==
    \A t \in Threads : (Validated(t) /\ "save" \in rv[t].swallowed) =>
        /\ file.kind = "json"
        /\ args[t].state \in DOMAIN file.data

\* C27, amended: a validation whose write failed still gives its caller the
\* record, or the session-mismatch error for two different non-empty sessions.
\* If the write failed at open() the file is as it was and holds the unexpired
\* record of S; if it failed after open() had truncated the file, the file is
\* a broken document.  A validation is refused with the invalid-state error
\* only if the file it loaded holds no unexpired record of S: while the record
\* remains, a validation by the right session succeeds again.
C27_ReplayAfterFailedWrite ==
    \A t \in Threads : Validated(t) =>
        LET S == args[t].state
            failed == "save" \in rv[t].swallowed
        IN
        /\ failed =>
             /\ rv[t].outcome \in {Returned, ErrMismatch}
             /\ rv[t].outcome = Returned => rv[t].info # NoInfo
             /\ file.kind \in {"json", "partial"}
        /\ (failed /\ file.kind = "json") =>
             /\ S \in DOMAIN file.data
             /\ load_states(file)[S].expires_at > now[t]
             /\ rv[t].outcome = Returned => load_states(file)[S] = rv[t].info
             /\ rv[t].outcome = ErrMismatch =>
                  /\ Truthy(load_states(file)[S].session_id)
                  /\ Truthy(args[t].session_id)
                  /\ load_states(file)[S].session_id # args[t].session_id
        /\ (/\ rv[t].outcome = ErrInvalid
            /\ rv[t].swallowed = {}
            /\ file.kind = "json"
            /\ S \in DOMAIN file.data)
              => load_states(file)[S].expires_at <= now[t]

\* A state redeemed once is redeemed a second time.
C27_Witness ==
    \E t \in Threads :
        /\ Validated(t)
        /\ rv[t].pre = "redeemed"
        /\ rv[t].outcome = Returned
        /\ rv[t].swallowed = {}

\* C28: a store of S whose load failed and was swallowed, and whose write
\* succeeded, leaves a file that holds the record of S and nothing else; and a
\* validation gets past its lookup only on a record the file holds, so the
\* records that were dropped are refused with the invalid-state error from
\* then on.
C28_DataLossAfterFailedLoad ==
    \A t \in Threads :
        /\ (/\ Stored(t)
            /\ "load" \in rv[t].swallowed
            /\ "save" \notin rv[t].swallowed)
              => /\ file.kind = "json"
                 /\ DOMAIN file.data = {args[t].state}
                 /\ load_states(file)[args[t].state] = states[t][args[t].state]
        /\ pc[t] = "open" =>
              /\ file.kind = "json"
              /\ args[t].state \in DOMAIN file.data
        /\ (Validated(t) /\ "load" \in rv[t].swallowed) => rv[t].outcome = ErrInvalid

\* The file holds S alone after a store whose load failed, and the other
\* state had been issued and has not expired.
C28_Witness ==
    \E t \in Threads, k \in Keys :
        /\ Stored(t)
        /\ rv[t].swallowed = {"load"}
        /\ file.kind = "json"
        /\ DOMAIN file.data = {args[t].state}
        /\ k # args[t].state
        /\ hist[k] = "issued"
        /\ orig[k].expires_at > clock

\* C21: the instance keeps no table between calls, so it shares no record
\* with a caller; the step by which a caller changes the record it was handed
\* changes neither the file nor the instance nor any call in progress; and
\* every validation that succeeds, also while another caller holds a record it
\* has changed, returns the record as it was issued.
C21_NothingShared ==
    /\ inst.records = EmptyTable
    /\ \A t \in Threads : (Validated(t) /\ rv[t].outcome = Returned) =>
          rv[t].info = orig[args[t].state]

C21_CallerIsolation ==
    /\ []C21_NothingShared
    /\ [][\A t \in Threads :
            (pc[t] = "held" /\ pc'[t] = "held" /\ rv'[t] # rv[t]) =>
               /\ file' = file
               /\ inst' = inst
               /\ lock' = lock
               /\ states' = states
               /\ \A u \in Threads \ {t} : rv'[u] = rv[u]]_vars

\* One caller holds the record of a state with the session changed, and the
\* other redeems the same state, issued again: it gets the record as issued.
C21_Witness ==
    \E t \in Threads, u \in Threads :
        /\ pc[t] = "held"
        /\ rv[t].info.session_id = "M"
        /\ Validated(u)
        /\ args[u].state = args[t].state
        /\ rv[u].outcome = Returned
        /\ rv[u].info = orig[args[u].state]
        /\ rv[u].info.session_id # "M"

\* C24: with a store instance per writer, a writer that has reached
\* `with self._lock` is never kept out by the other writer's critical section:
\* it can always take its lock and load the file, whatever the other is doing
\* to the file.
C24_NoCrossInstanceProtection ==
    \A t \in Threads : pc[t] = "wait" => can_enter(t, TRUE)

\* Both writers are at the end of a successful validation of the same state,
\* and the record of the other state, issued and unexpired, has been lost to
\* a rewrite.
C24_Witness ==
    \E t \in Threads, u \in Threads, k \in Keys :
        /\ t # u
        /\ Validated(t)
        /\ Validated(u)
        /\ args[t].state = args[u].state
        /\ rv[t].outcome = Returned
        /\ rv[u].outcome = Returned
        /\ k # args[t].state
        /\ hist[k] = "issued"
        /\ orig[k].expires_at > clock
        /\ Absent(k)

\* C25: the process makes at most one store instance, and two callers of
\* get_persistent_oauth_state_store hold the same instance.
C25_Singleton ==
    /\ inst.instances <= 1
    /\ \A t \in Threads, u \in Threads :
         (pc[t] = "got" /\ pc[u] = "got") => rv[t].outcome = rv[u].outcome

\* The lock is granted to every thread that finds it free again and again.
FairLock == \A t \in Threads : SF_vars(Enter(t))

\* C30 as stated: every thread waiting for the lock eventually enters its
\* critical section.
C30_EveryWaiterEnters ==
    \A t \in Threads : (pc[t] = "wait") ~> (t \in InCS)

\* C30: the lock is owned only by a thread inside its critical section; a thread
\* inside leaves it on every exit path and the lock is free again; while a
\* thread waits, some thread enters; and when the lock is granted fairly every
\* waiting thread enters.
C30_LockReleaseAndProgress ==
    /\ [](lock # None => lock \in InCS)
    /\ \A t \in Threads : (t \in InCS) ~> (pc[t] = "idle" /\ lock # t)
    /\ (\E t \in Threads : pc[t] = "wait") ~> (InCS # {})
    /\ FairLock => C30_EveryWaiterEnters

\* A thread waits while the other is at the end of a call whose load raised.
C30_Witness ==
    \E t \in Threads, u \in Threads :
        /\ pc[t] = "wait"
        /\ pc[u] = "release" /\ lock = u
        /\ rv[u].outcome \in LoadExceptions

====
